---- MODULE Spec2Model ----
(***************************************************************************)
(* Model of the Maersk tracking bridge: the Netlify function               *)
(* exports.handler of netlify/functions/track.js in the seven revisions    *)
(* kept in the repository.                                                 *)
(*                                                                         *)
(*   track_1  src/netlify/functions/track.js   lines   1-137               *)
(*   track_2  src/netlify/functions/track.js   lines 139-266               *)
(*   p000_1   src/unnamed/part_000             lines   1-133               *)
(*   p000_2   src/unnamed/part_000             lines 135-204               *)
(*   p001     src/unnamed/part_001                                         *)
(*   p002     src/unnamed/part_002                                         *)
(*   p003     src/unnamed/part_003                                         *)
(*                                                                         *)
(* One handler run is: method check, token request, tracking request,      *)
(* then the synchronous formatting of the received events.                 *)
(*                                                                         *)
(* Representation of JavaScript values:                                    *)
(*   - an absent / undefined string field is the string Undefined;         *)
(*   - an absent timestamp field is NoTime, and new Date(absent) is NaN;   *)
(*   - an optional object carries a "present" flag;                        *)
(*   - a template string `${a}, ${b}` is the tuple <<a, b>>;               *)
(*   - the time unit is a fraction of a day (DayLength units per day).     *)
(***************************************************************************)
EXTENDS Integers, Sequences, FiniteSets, TLC

\* ---------------------------------------------------------------- bounds
\* Longest event batch the upstream API returns in the model.
MaxEvents == 3
\* Latest value of the wall clock, new Date(), in time units.
MaxNow == 7
\* Latest timestamp an event of the feed carries.
MaxTime == 2

\* ------------------------------------------------------- JavaScript values
Undefined == "undefined"
\* A timestamp field that is absent from the record.
NoTime == -1
\* The value of new Date(undefined): Invalid Date, NaN as a number.
NaN == -1000000
\* 1000 * 60 * 60 * 24 milliseconds, in the model's time unit.
DayLength == 2

\* x is truthy (strings: neither undefined/null nor empty).
Truthy(s) == s # Undefined /\ s # ""
\* a || b on strings.
Or(a, b) == IF Truthy(a) THEN a ELSE b
\* new Date(field).getTime()
DateOf(t) == IF t = NoTime THEN NaN ELSE t
\* a - b on numbers, NaN absorbing.
Minus(a, b) == IF a = NaN \/ b = NaN THEN NaN ELSE a - b
\* Math.round(x / DayLength): nearest integer, halves towards +Infinity.
RoundDays(x) == IF x = NaN THEN NaN ELSE (2 * x + DayLength) \div (2 * DayLength)
\* Names every object literal inherits from Object.prototype.
ObjectPrototypeKeys ==
  {"constructor", "toString", "valueOf", "hasOwnProperty", "isPrototypeOf",
   "propertyIsEnumerable", "toLocaleString"}
\* The value of an inherited property: a function, truthy, and left out of
\* the body by JSON.stringify.
Inherited == "[inherited]"
\* obj[key] on a table: the own entry, else the inherited property, else
\* undefined.
Lookup(tbl, k) ==
  IF k \in DOMAIN tbl THEN tbl[k]
  ELSE IF k \in ObjectPrototypeKeys THEN Inherited
  ELSE Undefined

\* ------------------------------------------------------------- revisions
Revisions == {"track_1", "track_2", "p000_1", "p000_2", "p001", "p002", "p003"}
\* Revisions with the detailed response (summary, containers, transportPlan).
DetailedRevs == {"track_1", "p000_1", "p002"}
\* Revisions with the status/events response.
StatusRevs == {"track_2", "p003", "p001", "p000_2"}

\* ---------------------------------------------------------------- tables
\* An object literal { k1: v1, k2: v2, ... } given as its <<key, value>> pairs.
ObjectLiteral(pairs) ==
  [k \in {pairs[i][1] : i \in DOMAIN pairs} |->
     pairs[CHOOSE i \in DOMAIN pairs : pairs[i][1] = k][2]]

\* eventDescriptions of track.js (first handler).
TrackDescriptions == ObjectLiteral(<<
     <<"GTIN", "Gate in">>, <<"GTOT", "Gate out">>, <<"LOAD", "Load">>,
     <<"DISC", "Discharge">>, <<"STUF", "Stuffed">>, <<"STRP", "Stripped">>,
     <<"PICK", "Pick-up for delivery">>, <<"DROP", "Empty container return">>,
     <<"DEPA", "Vessel departure">>, <<"ARRI", "Vessel arrival">>,
     <<"RECE", "Received for shipment">>, <<"DRFT", "Draft B/L created">>,
     <<"CONF", "Booking confirmed">>, <<"ISSU", "B/L issued">>,
     <<"PENA", "Pending approval">> >>)

\* eventDescriptions of part_000 (first handler).
Part000Descriptions == ObjectLiteral(<<
     <<"GTIN", "Gate in">>, <<"GTOT", "Gate out">>, <<"LOAD", "Load">>,
     <<"DISC", "Discharge">>, <<"STUF", "Stuffed">>, <<"STRP", "Stripped">>,
     <<"PICK", "Gate out for delivery">>, <<"DROP", "Empty container return">>,
     <<"DEPA", "Vessel departure">>, <<"ARRI", "Vessel arrival">> >>)

\* eventDescriptions of part_002.
Part002Descriptions == ObjectLiteral(<<
     <<"GTIN", "Gate in">>, <<"GTOT", "Gate out Empty">>, <<"LOAD", "Load">>,
     <<"DISC", "Discharge">>,
     <<"PICK", "Gate out for delivery">>, <<"DROP", "Empty container return">>,
     <<"DEPA", "Vessel departure">>, <<"ARRI", "Vessel arrival">> >>)

eventDescriptions(rev) ==
  IF rev = "track_1" THEN TrackDescriptions
  ELSE IF rev = "p000_1" THEN Part000Descriptions
  ELSE Part002Descriptions

\* isoCodeToSize of track.js and part_000 (first handlers).
FourSizes == ObjectLiteral(<<
     <<"45G1", "40' Dry High">>, <<"22G1", "20' Dry">>,
     <<"42G1", "40' Dry">>, <<"45R1", "40' Reefer High">> >>)

\* isoCodeToSize of part_002.
TwoSizes == ObjectLiteral(<< <<"45G1", "40' Dry High">>, <<"22G1", "20' Dry">> >>)

isoCodeToSize(rev) == IF rev = "p002" THEN TwoSizes ELSE FourSizes

shipmentEventCodes == ObjectLiteral(<<
   <<"RECE", "Received">>, <<"DRFT", "Drafted">>, <<"PENA", "Pending Approval">>,
   <<"PENU", "Pending Update">>, <<"REJE", "Rejected">>, <<"APPR", "Approved">>,
   <<"ISSU", "Issued">>, <<"SURR", "Surrendered">>, <<"SUBM", "Submitted">>,
   <<"VOID", "Void">>, <<"CONF", "Confirmed">>, <<"REQS", "Requested">>,
   <<"CMPL", "Completed">>, <<"HOLD", "On Hold">>, <<"RELS", "Released">> >>)

transportEventCodes == ObjectLiteral(<< <<"ARRI", "Arrived">>, <<"DEPA", "Departed">> >>)

equipmentEventCodes == ObjectLiteral(<<
   <<"LOAD", "Loaded">>, <<"DISC", "Discharged">>, <<"GTIN", "Gated In">>,
   <<"GTOT", "Gated Out">>, <<"STUF", "Stuffed">>, <<"STRP", "Stripped">>,
   <<"PICK", "Pick-up">>, <<"DROP", "Drop-off">>, <<"RSEA", "Resealed">>,
   <<"RMVD", "Removed">>, <<"INSP", "Inspected">> >>)

\* ---------------------------------------------------------------- events
\* A location object { locationName, UNLocationCode, address: { cityName,
\* country } }, or absent.  No handler reads UNLocationCode.
NoLoc ==
  [present |-> FALSE, locationName |-> Undefined, hasAddress |-> FALSE,
   cityName |-> Undefined, country |-> Undefined, UNLocationCode |-> Undefined]

\* { locationName: name, address: { cityName: city, country: country } }
Place(name, city, country) ==
  [present |-> TRUE, locationName |-> name, hasAddress |-> TRUE,
   cityName |-> city, country |-> country, UNLocationCode |-> Undefined]

\* { locationName: name } with no address object.
Facility(name) ==
  [present |-> TRUE, locationName |-> name, hasAddress |-> FALSE,
   cityName |-> Undefined, country |-> Undefined, UNLocationCode |-> Undefined]

\* The location loc carrying the UN location code.
Coded(loc, code) == [loc EXCEPT !.UNLocationCode = code]

\* An absent transportCall object.
NoCall ==
  [present |-> FALSE, modeOfTransport |-> Undefined, location |-> NoLoc,
   vesselName |-> Undefined, exportVoyageNumber |-> Undefined]

\* A record of the upstream feed with every field absent.  id is the position
\* of the record in the feed: the identity of the JavaScript object.  isNull
\* marks an element of the list that is null instead of an object.
BlankEvent ==
  [id |-> 0, isNull |-> FALSE, eventType |-> Undefined, eventClassifierCode |-> Undefined,
   equipmentEventTypeCode |-> Undefined, transportEventTypeCode |-> Undefined,
   shipmentEventTypeCode |-> Undefined,
   eventCreatedDateTime |-> NoTime, eventDateTime |-> NoTime,
   equipmentReference |-> Undefined, ISOEquipmentCode |-> Undefined,
   eventLocation |-> NoLoc, transportCall |-> NoCall,
   eventDescription |-> Undefined, documentTypeCode |-> Undefined,
   documentID |-> Undefined]

\* A null element of the event list.
NullRecord == [BlankEvent EXCEPT !.isNull = TRUE]

\* loc?.address?.cityName
CityOf(loc) == IF loc.present /\ loc.hasAddress THEN loc.cityName ELSE Undefined
\* loc?.address?.country (only read where the address exists)
CountryOf(loc) == IF loc.present /\ loc.hasAddress THEN loc.country ELSE Undefined
\* loc?.locationName
NameOf(loc) == IF loc.present THEN loc.locationName ELSE Undefined
\* event.transportCall?.location
CallLocation(e) == IF e.transportCall.present THEN e.transportCall.location ELSE NoLoc
\* event.eventLocation || event.transportCall?.location
LocationObj(e) == IF e.eventLocation.present THEN e.eventLocation ELSE CallLocation(e)
\* event.transportCall?.modeOfTransport
ModeOf(e) == IF e.transportCall.present THEN e.transportCall.modeOfTransport ELSE Undefined
\* event.transportCall?.vessel?.vesselName
VesselNameOf(e) == IF e.transportCall.present THEN e.transportCall.vesselName ELSE Undefined

\* String.prototype.toLowerCase on the place names of the model.
ToLowerCase(s) ==
  CASE s = "Jeddah" -> "jeddah"
    [] s = "JEDDAH" -> "jeddah"
    [] s = "Rotterdam" -> "rotterdam"
    [] s = "APM Terminal" -> "apm terminal"
    [] OTHER -> s

\* ------------------------------------------------------------- sequences
\* [...arr].reverse()
Reverse(s) == [i \in 1..Len(s) |-> s[Len(s) + 1 - i]]

\* arr.find(test), given the set of indices whose element passes the test:
\* the index of the first such element, 0 when find returns undefined.
FindFirst(hits) ==
  IF hits = {} THEN 0 ELSE CHOOSE i \in hits : \A j \in hits : i <= j

\* [...arr].reverse().find(test), given the indices in arr whose element passes
\* the test: the index in arr of the last such element, 0 for undefined.
FindLast(hits) ==
  IF hits = {} THEN 0 ELSE CHOOSE i \in hits : \A j \in hits : j <= i

\* [...new Set(arr)]: the distinct values in order of first occurrence.
RECURSIVE Unique(_)
Unique(s) ==
  IF s = <<>> THEN <<>>
  ELSE LET init == Unique(SubSeq(s, 1, Len(s) - 1))
           last == s[Len(s)]
       IN IF \E i \in 1..Len(init) : init[i] = last THEN init ELSE Append(init, last)

\* ------------------------------------------------------------------ sort
\* The comparator handed to Array.prototype.sort, as sort reads it: a NaN
\* result counts as +0.
SortCompare(rev, a, b) ==
  LET d == IF rev = "track_2"
           THEN Minus(DateOf(b.eventCreatedDateTime), DateOf(a.eventCreatedDateTime))
           ELSE Minus(DateOf(a.eventCreatedDateTime), DateOf(b.eventCreatedDateTime))
  IN IF d = NaN THEN 0 ELSE d

\* ECMAScript's "consistent comparator" for the values of s: equality and
\* order under the comparator are transitive and the comparator is antisymmetric.
ConsistentComparator(rev, s) ==
  \A i, j, k \in 1..Len(s) :
     LET c(x, y) == SortCompare(rev, s[x], s[y]) IN
       /\ c(i, i) = 0
       /\ (c(i, j) < 0) = (c(j, i) > 0)
       /\ (c(i, j) = 0 /\ c(j, k) = 0) => c(i, k) = 0
       /\ (c(i, j) < 0 /\ c(j, k) < 0) => c(i, k) < 0
       /\ (c(i, j) > 0 /\ c(j, k) > 0) => c(i, k) > 0

\* The arrangements of s.
Arrangements(s) ==
  {[i \in 1..Len(s) |-> s[f[i]]] : f \in Permutations(1..Len(s))}

\* out is s in comparator order, equal elements in their order in s.
StablySorted(rev, s, out) ==
  \A i, j \in 1..Len(out) : i < j =>
     LET c == SortCompare(rev, out[i], out[j]) IN
       c < 0 \/ (c = 0 /\ out[i].id < out[j].id)

\* Every array arr.sort(comparator) can leave in arr.  With a consistent
\* comparator the sort is the stable sort (ES2019); otherwise the order is
\* implementation-defined and any arrangement of the elements may result.
ArraySort(rev, s) ==
  IF ConsistentComparator(rev, s)
  THEN {out \in Arrangements(s) : StablySorted(rev, s, out)}
  ELSE Arrangements(s)

\* ------------------------------------------------------------------ icon
\* ['GTOT', 'GTIN', 'PICK'].includes(code), or the chain of === of track.js.
GroundMoveCodes(rev) == IF rev = "track_1" THEN {"GTOT", "GTIN"} ELSE {"GTOT", "GTIN", "PICK"}

getIcon(rev, e) ==
  IF e.eventType = "TRANSPORT" \/ (rev # "p002" /\ ModeOf(e) = "VESSEL") THEN "vessel"
  ELSE IF (rev # "p002" /\ ModeOf(e) = "TRUCK")
          \/ e.equipmentEventTypeCode \in GroundMoveCodes(rev) THEN "truck"
  ELSE "container"

\* ------------------------------------------------------------- responses
\* The object a handler returns: statusCode, and the body it stringifies.
\* has names the properties the body object carries; a property not in has
\* holds the default written here.  error is the message of an error body,
\* as the parts the template string joins.
BlankResponse ==
  [statusCode |-> 200, error |-> <<>>, has |-> {},
   from |-> Undefined, to |-> Undefined, status |-> Undefined,
   lastUpdated |-> [text |-> Undefined, n |-> 0],
   containers |-> <<>>, transportPlan |-> <<>>, events |-> <<>>]

ErrorResponse(code, message) ==
  [BlankResponse EXCEPT !.statusCode = code, !.error = message, !.has = {"error"}]

\* The catch block around the tracking request and the formatting, for the
\* error whose message is detail.
InternalError(rev, detail) ==
  ErrorResponse(500, IF rev \in {"p001", "p000_2"}
                     THEN <<"An error occurred while fetching tracking data.">>
                     ELSE <<"An internal error occurred", detail>>)

\* ------------------------------------------- detailed response: summary
\* e.eventLocation?.address?.cityName || e.transportCall?.location?.address?.cityName
AnyCityOf(e) == Or(CityOf(e.eventLocation), CityOf(CallLocation(e)))

\* getSummaryLocation (part_000) of an event that exists.
getSummaryLocation(e) == Or(CityOf(LocationObj(e)), NameOf(LocationObj(e)))

\* getLocationFromEvent (part_002) of an event that exists.
getLocationFromEvent(e) == Or(Or(CityOf(LocationObj(e)), NameOf(LocationObj(e))), "N/A")

\* event.equipmentEventTypeCode || event.transportEventTypeCode
MoveCode(e) == Or(e.equipmentEventTypeCode, e.transportEventTypeCode)

\* Index in sorted of the event the summary origin is read from, 0 for none:
\* firstLocationEvent / firstLoadOrDeparture / fromEvent.
FromIndex(rev, sorted) ==
  IF rev = "track_1" THEN FindFirst({i \in 1..Len(sorted) : Truthy(AnyCityOf(sorted[i]))})
  ELSE IF rev = "p000_1"
  THEN FindFirst({i \in 1..Len(sorted) : MoveCode(sorted[i]) \in {"LOAD", "DEPA"}})
  ELSE FindFirst({i \in 1..Len(sorted) : sorted[i].equipmentEventTypeCode \in {"LOAD", "PICK"}})

\* Index in sorted of the event the summary destination is read from, 0 for none:
\* lastLocationEvent / lastDischargeOrArrival / toEvent.
ToIndex(rev, sorted) ==
  IF rev = "track_1" THEN FindLast({i \in 1..Len(sorted) : Truthy(AnyCityOf(sorted[i]))})
  ELSE IF rev = "p000_1"
  THEN FindLast({i \in 1..Len(sorted) : MoveCode(sorted[i]) \in {"DISC", "ARRI"}})
  ELSE FindLast({i \in 1..Len(sorted) : sorted[i].equipmentEventTypeCode \in {"DISC", "DROP"}})

\* fromLocation, for a non-empty sorted.
fromLocation(rev, sorted) ==
  LET k == FromIndex(rev, sorted) IN
  IF rev = "track_1" THEN (IF k = 0 THEN "N/A" ELSE Or(AnyCityOf(sorted[k]), "N/A"))
  ELSE IF rev = "p000_1"
  THEN Or(getSummaryLocation(IF k = 0 THEN sorted[1] ELSE sorted[k]), "N/A")
  ELSE (IF k = 0 THEN "N/A" ELSE getLocationFromEvent(sorted[k]))

\* toLocation, for a non-empty sorted.
toLocation(rev, sorted) ==
  LET k == ToIndex(rev, sorted) IN
  IF rev = "track_1" THEN (IF k = 0 THEN "N/A" ELSE Or(AnyCityOf(sorted[k]), "N/A"))
  ELSE IF rev = "p000_1"
  THEN Or(getSummaryLocation(IF k = 0 THEN sorted[Len(sorted)] ELSE sorted[k]), "N/A")
  ELSE (IF k = 0 THEN "N/A" ELSE getLocationFromEvent(sorted[k]))

\* daysAgo = Math.round((new Date() - lastUpdatedDate) / (1000 * 60 * 60 * 24))
daysAgo(sorted, now) ==
  RoundDays(Minus(now, DateOf(sorted[Len(sorted)].eventCreatedDateTime)))

\* lastUpdatedText: "Today", or `${n} day ago` / `${n} days ago` as [text, n].
\* Every comparison with NaN is false.
lastUpdatedText(rev, d) ==
  IF rev = "p002"
  THEN IF d # NaN /\ d <= 0 THEN [text |-> "Today", n |-> 0]
       ELSE [text |-> IF d = 1 THEN "day ago" ELSE "days ago", n |-> d]
  ELSE IF d = 0 THEN [text |-> "Today", n |-> 0]
       ELSE [text |-> IF d # NaN /\ d > 1 THEN "days ago" ELSE "day ago", n |-> d]

\* ------------------------------------ detailed response: transport plan
\* eventCode of a transport step.
StepCode(rev, e) ==
  IF rev = "track_1" THEN Or(MoveCode(e), e.shipmentEventTypeCode) ELSE MoveCode(e)

\* description of a transport step.
StepDescription(rev, e) ==
  LET code == StepCode(rev, e)
      d == Or(Lookup(eventDescriptions(rev), code), code)
  IN IF rev = "p002" THEN d ELSE Or(d, e.eventType)

\* vesselInfo: null (<<>>) or `${vesselName} / ${exportVoyageNumber}`.
VesselInfo(e) ==
  IF e.eventType = "TRANSPORT" /\ Truthy(VesselNameOf(e))
  THEN <<VesselNameOf(e), e.transportCall.exportVoyageNumber>>
  ELSE <<>>

\* locationDetail: null (<<>>) or `${cityName}, ${country}`.
LocationDetail(rev, e) ==
  LET loc == LocationObj(e)
      shown == IF rev = "track_1" THEN Truthy(CityOf(loc))
               ELSE IF rev = "p000_1" THEN loc.present /\ loc.hasAddress
               ELSE Truthy(CityOf(loc))
                    /\ ToLowerCase(CityOf(loc)) # ToLowerCase(NameOf(loc))
  IN IF shown THEN <<CityOf(loc), CountryOf(loc)>> ELSE <<>>

\* Building the step of e raises a TypeError: part_002 calls toLowerCase on a
\* locationName that is undefined.
StepThrows(rev, e) ==
  rev = "p002" /\ Truthy(CityOf(LocationObj(e))) /\ NameOf(LocationObj(e)) = Undefined

\* The transport step of one event.  of is the identity of the event the step
\* was built from; it is not a property of the JavaScript object.
TransportStep(rev, e) ==
  [locationName |-> NameOf(LocationObj(e)),
   locationDetail |-> LocationDetail(rev, e),
   icon |-> getIcon(rev, e),
   description |-> StepDescription(rev, e),
   vesselInfo |-> VesselInfo(e),
   date |-> e.eventDateTime,
   of |-> e.id]

\* const transportPlan = sortedEvents.map(...)
transportPlan(rev, sorted) == [i \in 1..Len(sorted) |-> TransportStep(rev, sorted[i])]

\* The transportPlan property of finalResponse.
ReturnedPlan(rev, sorted) ==
  IF rev = "p002" THEN transportPlan(rev, sorted) ELSE Reverse(transportPlan(rev, sorted))

\* --------------------------------------- detailed response: containers
HasReference(e) == Truthy(e.equipmentReference)

\* sortedEvents.filter(e => e.equipmentReference)
containerEvents(sorted) == SelectSeq(sorted, HasReference)

\* uniqueContainerIds without the Set: one id per container event.
RepeatedContainerIds(sorted) ==
  LET ce == containerEvents(sorted)
  IN [i \in 1..Len(ce) |-> ce[i].equipmentReference]

\* [...new Set(containerEvents.map(e => e.equipmentReference))]
uniqueContainerIds(sorted) ==
  LET ce == containerEvents(sorted)
  IN Unique([i \in 1..Len(ce) |-> ce[i].equipmentReference])

\* lastEventForContainer without the reverse(): the first event of the container.
FirstEventForContainer(sorted, id) ==
  LET ce == containerEvents(sorted)
  IN ce[FindFirst({i \in 1..Len(ce) : ce[i].equipmentReference = id})]

\* [...containerEvents].reverse().find(e => e.equipmentReference === id)
lastEventForContainer(sorted, id) ==
  LET ce == containerEvents(sorted)
  IN ce[FindLast({i \in 1..Len(ce) : ce[i].equipmentReference = id})]

\* One entry of containers.
Container(rev, sorted, id) ==
  LET last == lastEventForContainer(sorted, id)
      eventCode == last.equipmentEventTypeCode
      lastLoc == LocationObj(last)
  IN [id |-> id,
      size |-> Or(Lookup(isoCodeToSize(rev), last.ISOEquipmentCode), "Standard"),
      finalStatus |-> Or(Lookup(eventDescriptions(rev), eventCode), eventCode),
      finalLocation |-> IF lastLoc.present /\ lastLoc.hasAddress
                        THEN <<CityOf(lastLoc), CountryOf(lastLoc)>>
                        ELSE <<"N/A">>,
      finalDate |-> last.eventDateTime]

containers(rev, sorted) ==
  LET ids == uniqueContainerIds(sorted)
  IN [i \in 1..Len(ids) |-> Container(rev, sorted, ids[i])]

\* ------------------------------------------------- detailed response
\* The body returned for an empty batch.
EmptyResponse(rev) ==
  IF rev = "track_1"
  THEN [BlankResponse EXCEPT !.has = {"summary.blNumber", "transportPlan"}]
  ELSE [BlankResponse EXCEPT
          !.has = {"summary.blNumber", "summary.from", "summary.to", "transportPlan"},
          !.from = "N/A", !.to = "N/A"]

\* finalResponse for a non-empty sorted batch, or the catch block's response.
DetailedResponse(rev, sorted, now) ==
  IF \E i \in 1..Len(sorted) : StepThrows(rev, sorted[i])
  THEN InternalError(rev, "TypeError")
  ELSE [BlankResponse EXCEPT
          !.has = {"summary.blNumber", "summary.from", "summary.to", "lastUpdated",
                   "containers", "transportPlan"},
          !.from = fromLocation(rev, sorted),
          !.to = toLocation(rev, sorted),
          !.lastUpdated = lastUpdatedText(rev, daysAgo(sorted, now)),
          !.containers = containers(rev, sorted),
          !.transportPlan = ReturnedPlan(rev, sorted)]

\* ------------------------------------------------- status response
\* formatLocation(loc): the truthy parts joined, or a fixed phrase.
formatLocation(loc) ==
  IF ~loc.present THEN <<"Location not provided">>
  ELSE LET parts == SelectSeq(<<loc.locationName, CityOf(loc), CountryOf(loc)>>, Truthy)
       IN IF Len(parts) > 0 THEN parts ELSE <<"Location details unavailable">>

\* The event current_status is read from, or BlankEvent for {}.
latestActualEvent(events) ==
  LET k == FindFirst({i \in 1..Len(events) : events[i].eventClassifierCode = "ACT"})
  IN IF k # 0 THEN events[k] ELSE IF Len(events) > 0 THEN events[1] ELSE BlankEvent

\* tbl[code] || code for the event's own kind, undefined for any other kind.
KindDescription(e) ==
  IF e.eventType = "SHIPMENT"
  THEN Or(Lookup(shipmentEventCodes, e.shipmentEventTypeCode), e.shipmentEventTypeCode)
  ELSE IF e.eventType = "TRANSPORT"
  THEN Or(Lookup(transportEventCodes, e.transportEventTypeCode), e.transportEventTypeCode)
  ELSE IF e.eventType = "EQUIPMENT"
  THEN Or(Lookup(equipmentEventCodes, e.equipmentEventTypeCode), e.equipmentEventTypeCode)
  ELSE Undefined

\* current_status of track.js (second handler) and part_003.
current_status(events) ==
  LET e == latestActualEvent(events)
  IN IF e.eventType \in {"SHIPMENT", "TRANSPORT", "EQUIPMENT"}
     THEN KindDescription(e) ELSE "Status Unavailable"

\* current_status of part_001 and part_000 (second handler).
FirstEventStatus(events) ==
  Or((IF Len(events) > 0 THEN events[1] ELSE BlankEvent).shipmentEventTypeCode,
     "Status Unavailable")

\* event.eventCreatedDateTime || 'N/A'
DateOrNA(t) == [time |-> t, text |-> IF t = NoTime THEN "N/A" ELSE "date"]

\* One entry of events, of track.js (second handler) and part_003: the
\* description is `${description}${suffix} (${eventClassifierCode})`.
StatusEntry(rev, e) ==
  LET base == IF e.eventType \in {"SHIPMENT", "TRANSPORT", "EQUIPMENT"}
              THEN KindDescription(e) ELSE e.eventType
      suffix == IF rev # "track_2" THEN <<>>
                ELSE IF e.eventType = "SHIPMENT" /\ Truthy(e.documentTypeCode)
                        /\ Truthy(e.documentID)
                THEN <<e.documentTypeCode, e.documentID>>
                ELSE IF e.eventType = "TRANSPORT" /\ Truthy(VesselNameOf(e))
                THEN <<"on vessel", VesselNameOf(e)>>
                ELSE <<>>
      loc == IF e.eventType = "TRANSPORT" THEN formatLocation(CallLocation(e))
             ELSE IF e.eventType = "EQUIPMENT" THEN formatLocation(e.eventLocation)
             ELSE <<"Location not provided">>
  IN [date |-> DateOrNA(e.eventCreatedDateTime),
      description |-> <<base>> \o suffix \o <<e.eventClassifierCode>>,
      location |-> loc,
      of |-> e.id]

\* One entry of events, of part_001 and part_000 (second handler).
PlainEntry(e) ==
  [date |-> DateOrNA(e.eventCreatedDateTime),
   description |-> <<Or(e.eventDescription, "No description")>>,
   location |-> <<Or(NameOf(e.eventLocation), "Unknown location")>>,
   of |-> e.id]

\* formatted_response for the events in the order the handler lists them.
StatusResponse(rev, events) ==
  [BlankResponse EXCEPT
     !.has = {"status", "events"},
     !.status = IF rev \in {"track_2", "p003"} THEN current_status(events)
                ELSE FirstEventStatus(events),
     !.events = [i \in 1..Len(events) |->
                   IF rev \in {"track_2", "p003"} THEN StatusEntry(rev, events[i])
                   ELSE PlainEntry(events[i])]]

\* --------------------------------------------------------------- payload
\* What trackingResponse.json() yields: an object holding the list under
\* events ("events"), a bare list ("list"), an object without events
\* ("object"), or null ("null").  "none" before the response is read.
Shapes == {"events", "list", "object", "null"}
Payload(shape, events) == [shape |-> shape, events |-> events]
NoPayload == Payload("none", <<>>)

\* trackingData.events || []
EventsOf(td) == IF td.shape = "events" THEN td.events ELSE <<>>

\* Reading the event list off the payload raises a TypeError.
PayloadThrows(rev, td) ==
  \/ td.shape = "null"
  \/ rev = "p000_2" /\ td.shape # "list"

\* The list the handler formats.
Batch(rev, td) == IF rev = "p000_2" THEN td.events ELSE EventsOf(td)

\* Reading a property of an element of the list raises a TypeError: the
\* element is null.  Every revision reads a property of every element (the
\* sort comparator, the find callbacks, the map callbacks).
RecordThrows(batch) == \E i \in 1..Len(batch) : batch[i].isNull

\* Revisions that sort the batch in place.
SortingRevs == {"track_1", "p000_1", "p002", "track_2"}

\* ----------------------------------------------------------------- state
VARIABLES
  rev,           \* the revision of the handler that runs
  upstream,      \* what the carrier's tracking API holds for the tracking number
  clock,         \* the wall clock, new Date()
  pc,            \* "start", "auth", "fetch", "format", "done"
  httpMethod,    \* event.httpMethod of the request, "" before it is read
  trackingData,  \* the parsed tracking response
  sortedEvents,  \* the list the handler formats (sortedEvents where it sorts)
  response       \* the object the handler returned

vars == <<rev, upstream, clock, pc, httpMethod, trackingData, sortedEvents, response>>

\* The feed records numbered by position.
WithIds(s) == [i \in 1..Len(s) |-> [s[i] EXCEPT !.id = i]]

\* Every batch of at most MaxEvents records of pool.
Batches(pool) == UNION {{WithIds(b) : b \in [1..n -> pool]} : n \in 0..MaxEvents}

\* Every payload over pool: each batch under events and as a bare list, an
\* object without events, and null.
Payloads(pool) ==
  {Payload(sh, b) : sh \in {"events", "list"}, b \in Batches(pool)}
    \cup {Payload("object", <<>>), Payload("null", <<>>)}

\* The payloads over pool that hold their batch under events, and the
\* payloads without a batch.
EventPayloads(pool) ==
  {Payload("events", b) : b \in Batches(pool)}
    \cup {Payload("list", <<>>), Payload("object", <<>>), Payload("null", <<>>)}

\* The state at the start of a run of one of revs, for the given feeds and
\* clock values.
Start(revs, feeds, clocks) ==
  /\ rev \in revs
  /\ upstream \in feeds
  /\ clock \in clocks
  /\ pc = "start"
  /\ httpMethod = ""
  /\ trackingData = NoPayload
  /\ sortedEvents = <<>>
  /\ response = BlankResponse

\* ---------------------------------------------------------------- actions
Return(r) ==
  /\ response' = r
  /\ pc' = "done"

\* if (event.httpMethod === 'OPTIONS') return 200 'Success'
Options ==
  /\ pc = "start"
  /\ rev # "p000_2"
  /\ httpMethod' = "OPTIONS"
  /\ Return([BlankResponse EXCEPT !.has = {"Success"}])
  /\ UNCHANGED <<rev, upstream, clock, trackingData, sortedEvents>>

\* if (event.httpMethod !== 'POST') return 405
NotPost ==
  /\ pc = "start"
  /\ \E m \in {"GET", "OPTIONS"} :
       /\ m = "OPTIONS" => rev = "p000_2"
       /\ httpMethod' = m
  /\ Return(ErrorResponse(405, <<"Method Not Allowed">>))
  /\ UNCHANGED <<rev, upstream, clock, trackingData, sortedEvents>>

\* A POST: the body is parsed and the token is requested.
Post ==
  /\ pc = "start"
  /\ httpMethod' = "POST"
  /\ pc' = "auth"
  /\ UNCHANGED <<rev, upstream, clock, trackingData, sortedEvents, response>>

\* The message of the authentication error of each revision.
AuthMessage(r) ==
  IF r \in {"track_1", "p000_1", "p002"} THEN <<"Authentication failed", "No access_token">>
  ELSE IF r \in {"track_2", "p003"}
  THEN <<"Authentication failed. Details", "No access_token in OAuth response">>
  ELSE IF r = "p001" THEN <<"Authentication failed. Maersk server response", "tokenData">>
  ELSE <<"Could not authenticate with carrier.">>

\* The token request fails or answers without a token: the catch returns 500.
AuthFail ==
  /\ pc = "auth"
  /\ Return(ErrorResponse(500, AuthMessage(rev)))
  /\ UNCHANGED <<rev, upstream, clock, httpMethod, trackingData, sortedEvents>>

\* accessToken is set.
AuthOk ==
  /\ pc = "auth"
  /\ pc' = "fetch"
  /\ UNCHANGED <<rev, upstream, clock, httpMethod, trackingData, sortedEvents, response>>

\* The response to a tracking request the carrier answered with a non-OK status.
NotOkResponse(r, status) ==
  IF r \in {"track_1", "p000_1", "p002"} THEN InternalError(r, "Maersk API Error (status)")
  ELSE IF r \in {"track_2", "p003"}
  THEN ErrorResponse(status, <<"Maersk API Error. Raw response", "errorText">>)
  ELSE IF r = "p001"
  THEN ErrorResponse(status, <<"Tracking information not found. Status", "statusText">>)
  ELSE ErrorResponse(404, <<"Tracking information not found.">>)

\* !trackingResponse.ok
FetchNotOk ==
  /\ pc = "fetch"
  /\ \E status \in {404, 503} : Return(NotOkResponse(rev, status))
  /\ UNCHANGED <<rev, upstream, clock, httpMethod, trackingData, sortedEvents>>

\* The tracking request itself rejects: the catch returns 500.
FetchThrows ==
  /\ pc = "fetch"
  /\ Return(InternalError(rev, "FetchError"))
  /\ UNCHANGED <<rev, upstream, clock, httpMethod, trackingData, sortedEvents>>

\* const trackingData = await trackingResponse.json()
FetchOk ==
  /\ pc = "fetch"
  /\ trackingData' = upstream
  /\ pc' = "format"
  /\ UNCHANGED <<rev, upstream, clock, httpMethod, sortedEvents, response>>

\* The synchronous rest of the handler: the batch is read off the payload,
\* sorted in place where the revision sorts, and formatted.
Format ==
  /\ pc = "format"
  /\ IF PayloadThrows(rev, trackingData)
     THEN /\ Return(InternalError(rev, "TypeError"))
          /\ UNCHANGED <<trackingData, sortedEvents>>
     ELSE IF rev \in DetailedRevs /\ Len(Batch(rev, trackingData)) = 0
     THEN /\ Return(EmptyResponse(rev))
          /\ UNCHANGED <<trackingData, sortedEvents>>
     ELSE IF RecordThrows(Batch(rev, trackingData))
     THEN /\ Return(InternalError(rev, "TypeError"))
          /\ UNCHANGED <<trackingData, sortedEvents>>
     ELSE \E sorted \in (IF rev \in SortingRevs
                         THEN ArraySort(rev, Batch(rev, trackingData))
                         ELSE {Batch(rev, trackingData)}) :
            /\ sortedEvents' = sorted
            /\ trackingData' = IF rev \in SortingRevs
                               THEN [trackingData EXCEPT !.events = sorted]
                               ELSE trackingData
            /\ Return(IF rev \in DetailedRevs
                      THEN DetailedResponse(rev, sorted, clock)
                      ELSE StatusResponse(rev, sorted))
  /\ UNCHANGED <<rev, upstream, clock, httpMethod>>

Next ==
  \/ Options
  \/ NotPost
  \/ Post
  \/ AuthFail
  \/ AuthOk
  \/ FetchNotOk
  \/ FetchThrows
  \/ FetchOk
  \/ Format

\* ------------------------------------------------------------- the feeds
\* Timestamps a feed record may carry in a field, absent included.
Times == {NoTime} \cup 1..MaxTime

\* A gate-in record with the given creation and event time.
TimedEvent(created, at) ==
  [BlankEvent EXCEPT !.eventType = "EQUIPMENT", !.eventClassifierCode = "ACT",
                     !.equipmentEventTypeCode = "GTIN",
                     !.eventCreatedDateTime = created, !.eventDateTime = at]

TimedPool == {TimedEvent(c, d) : c \in Times, d \in Times}

Init == Start(Revisions, Payloads(TimedPool), {MaxNow})

Spec == Init /\ [][Next]_vars

\* Feed whose records differ in creation time only, under every clock value.
CreatedPool == {TimedEvent(c, NoTime) : c \in Times}

InitRecency == Start(Revisions, Payloads(CreatedPool), 0..MaxNow)

SpecRecency == InitRecency /\ [][Next]_vars

\* Feed of container moves: records with or without an equipment reference,
\* each either a load at a place with an address or a discharge at a bare
\* facility, created at either of two times.
ContainerEvent(ref, isLoad, created) ==
  [BlankEvent EXCEPT
     !.eventType = "EQUIPMENT", !.eventClassifierCode = "ACT",
     !.equipmentReference = ref,
     !.equipmentEventTypeCode = IF isLoad THEN "LOAD" ELSE "DISC",
     !.ISOEquipmentCode = IF isLoad THEN "45G1" ELSE "99XX",
     !.eventLocation = IF isLoad THEN Place("APM Terminal", "Jeddah", "SA")
                       ELSE Facility("Rotterdam Terminal"),
     !.eventCreatedDateTime = created,
     !.eventDateTime = IF isLoad THEN 1 ELSE 2]

ContainerPool ==
  {ContainerEvent(ref, isLoad, c) :
     ref \in {"MSKU1000", "MSKU2000"}, isLoad \in BOOLEAN, c \in {1, 2}}
    \cup {ContainerEvent(Undefined, TRUE, 1)}

InitContainers == Start(DetailedRevs, EventPayloads(ContainerPool), {MaxNow})

SpecContainers == InitContainers /\ [][Next]_vars

\* Feed of classified events: a load, a vessel arrival and a booking
\* confirmation, each actual or planned, created at either of two times.
ClassifiedEvent(kind, classifier, created) ==
  [BlankEvent EXCEPT
     !.eventType = kind, !.eventClassifierCode = classifier,
     !.equipmentEventTypeCode = IF kind = "EQUIPMENT" THEN "LOAD" ELSE Undefined,
     !.transportEventTypeCode = IF kind = "TRANSPORT" THEN "ARRI" ELSE Undefined,
     !.shipmentEventTypeCode = IF kind = "SHIPMENT" THEN "CONF" ELSE Undefined,
     !.eventCreatedDateTime = created, !.eventDateTime = created]

ClassifiedPool ==
  {ClassifiedEvent(k, cl, c) :
     k \in {"EQUIPMENT", "TRANSPORT", "SHIPMENT"}, cl \in {"ACT", "PLN"}, c \in {1, 2}}

InitStatus == Start(StatusRevs, Payloads(ClassifiedPool), {MaxNow})

SpecStatus == InitStatus /\ [][Next]_vars

\* Feed of moves along a route: equipment and transport events of five
\* codes, at no location, at a place with a city, or at a bare facility.
\* Equipment events carry their location in eventLocation, transport events
\* in transportCall.location.
RouteEvent(code, loc) ==
  IF code \in {"DEPA", "ARRI"}
  THEN [BlankEvent EXCEPT
          !.eventType = "TRANSPORT", !.eventClassifierCode = "ACT",
          !.transportEventTypeCode = code,
          !.transportCall = [NoCall EXCEPT !.present = TRUE, !.location = loc],
          !.eventCreatedDateTime = 1, !.eventDateTime = 1]
  ELSE [BlankEvent EXCEPT
          !.eventType = "EQUIPMENT", !.eventClassifierCode = "ACT",
          !.equipmentEventTypeCode = code,
          !.eventLocation = loc,
          !.eventCreatedDateTime = 1, !.eventDateTime = 1]

RoutePool ==
  {RouteEvent(code, loc) :
     code \in {"LOAD", "DISC", "GTIN", "DEPA", "ARRI"},
     loc \in {NoLoc, Place("APM Terminal", "Jeddah", "SA"), Facility("Rotterdam Terminal")}}

InitRoute == Start(DetailedRevs, EventPayloads(RoutePool), {MaxNow})

SpecRoute == InitRoute /\ [][Next]_vars

\* Feed of loads of one container at every shape of location object: absent,
\* a bare facility, a place with city and country, each with or without a UN
\* location code, and places lacking the facility name or the city.
LocatedEvent(loc) ==
  [BlankEvent EXCEPT
     !.eventType = "EQUIPMENT", !.eventClassifierCode = "ACT",
     !.equipmentEventTypeCode = "LOAD", !.equipmentReference = "MSKU1000",
     !.eventLocation = loc,
     !.eventCreatedDateTime = 1, !.eventDateTime = 1]

LocationPool ==
  {LocatedEvent(loc) : loc \in
     {NoLoc,
      Facility("APM Terminal"),
      Coded(Facility("APM Terminal"), "SAJED"),
      Place("APM Terminal", "Jeddah", "SA"),
      Coded(Place("Rotterdam Terminal", "Rotterdam", "NL"), "SAJED"),
      Place("JEDDAH", "Jeddah", "SA"),
      Place(Undefined, "Jeddah", "SA"),
      Place("APM Terminal", Undefined, "SA")}}

InitLocation == Start(DetailedRevs, EventPayloads(LocationPool), {MaxNow})

SpecLocation == InitLocation /\ [][Next]_vars

\* Feed with records that are no events: a null element, an object without
\* any field, beside a load of a container and a gate-in.
RecordPool ==
  {NullRecord, BlankEvent,
   LocatedEvent(Place("APM Terminal", "Jeddah", "SA")), TimedEvent(MaxTime, MaxTime)}

InitRecords == Start(Revisions, Payloads(RecordPool), {MaxNow})

SpecRecords == InitRecords /\ [][Next]_vars

\* Feed of events of either kind, with a gate-in, pick-up, load or departure
\* code, carried by no transport call, by a vessel or by a truck.
IconEvent(kind, code, mode) ==
  [BlankEvent EXCEPT
     !.eventType = kind, !.eventClassifierCode = "ACT",
     !.equipmentEventTypeCode = IF kind = "EQUIPMENT" THEN code ELSE Undefined,
     !.transportEventTypeCode = IF kind = "TRANSPORT" THEN code ELSE Undefined,
     !.transportCall = IF mode = Undefined THEN NoCall
                       ELSE [NoCall EXCEPT !.present = TRUE, !.modeOfTransport = mode],
     !.eventCreatedDateTime = 1, !.eventDateTime = 1]

IconPool ==
  {IconEvent("EQUIPMENT", code, mode) :
     code \in {"GTIN", "PICK", "LOAD"}, mode \in {Undefined, "VESSEL", "TRUCK"}}
    \cup {IconEvent("TRANSPORT", "DEPA", mode) : mode \in {Undefined, "TRUCK"}}

InitIcon == Start(DetailedRevs, EventPayloads(IconPool), {MaxNow})

SpecIcon == InitIcon /\ [][Next]_vars

\* Feed of moves of one container whose event code and ISO equipment code
\* are in the tables, in no table, or the name of an inherited property; the
\* ISO code may also be absent.
CodeEvent(code, iso) ==
  [BlankEvent EXCEPT
     !.eventType = "EQUIPMENT", !.eventClassifierCode = "ACT",
     !.equipmentEventTypeCode = code, !.ISOEquipmentCode = iso,
     !.equipmentReference = "MSKU1000",
     !.eventCreatedDateTime = 1, !.eventDateTime = 1]

CodePool ==
  {CodeEvent(code, iso) :
     code \in {"GTIN", "CUST", "constructor"},
     iso \in {"45G1", "99XX", Undefined, "toString"}}

InitCodes == Start(DetailedRevs, EventPayloads(CodePool), {MaxNow})

SpecCodes == InitCodes /\ [][Next]_vars

\* Feed of equipment events of two containers and of transport events, each
\* with or without a vessel in its transport call.
VesselEvent(kind, ref, vessel) ==
  [BlankEvent EXCEPT
     !.eventType = kind, !.eventClassifierCode = "ACT",
     !.equipmentEventTypeCode = IF kind = "EQUIPMENT" THEN "LOAD" ELSE Undefined,
     !.transportEventTypeCode = IF kind = "TRANSPORT" THEN "DEPA" ELSE Undefined,
     !.equipmentReference = ref,
     !.transportCall = IF vessel = Undefined THEN NoCall
                       ELSE [NoCall EXCEPT !.present = TRUE, !.vesselName = vessel,
                                           !.exportVoyageNumber = "123E"],
     !.eventCreatedDateTime = 1, !.eventDateTime = 1]

VesselPool ==
  {VesselEvent("EQUIPMENT", ref, v) :
     ref \in {"MSKU1000", "MSKU2000"}, v \in {Undefined, "MAERSK ESSEX"}}
    \cup {VesselEvent("TRANSPORT", Undefined, v) : v \in {Undefined, "MAERSK ESSEX"}}

InitVessel == Start(DetailedRevs, EventPayloads(VesselPool), {MaxNow})

SpecVessel == InitVessel /\ [][Next]_vars

\* ------------------------------------------------------ claim vocabulary
\* The formatting code ran on a payload it could read.
Formatted == pc = "done" /\ trackingData # NoPayload /\ ~PayloadThrows(rev, upstream)

\* The batch as the carrier sent it.
InputBatch == Batch(rev, upstream)

\* The handler returned its full detailed response.
DetailedDone ==
  Formatted /\ rev \in DetailedRevs /\ Len(InputBatch) > 0 /\ response.statusCode = 200

\* Effective timestamp of the specification: creation time, else the
\* alternate (event) time, else the sentinel zero time.
EffectiveTime(e) ==
  IF e.eventCreatedDateTime # NoTime THEN e.eventCreatedDateTime
  ELSE IF e.eventDateTime # NoTime THEN e.eventDateTime
  ELSE 0

\* s and t hold the same records, each as often.
SameEvents(s, t) ==
  /\ Len(s) = Len(t)
  /\ \A i \in 1..Len(s) : \E j \in 1..Len(t) : t[j] = s[i]
  /\ \A i, j \in 1..Len(t) : t[i].id = t[j].id => i = j

\* ----------------------------------------------------------------- C1
\* C1: for every non-empty batch the sequenced list has the length and the
\* events of the input batch, and the effective timestamps of consecutive
\* events are non-decreasing from first to last.
C1_SequencedAscending ==
  (Formatted /\ rev \in {"p002", "track_1", "track_2"} /\ Len(InputBatch) > 0) =>
     /\ SameEvents(InputBatch, sortedEvents)
     /\ \A i \in 1..(Len(sortedEvents) - 1) :
          EffectiveTime(sortedEvents[i]) <= EffectiveTime(sortedEvents[i + 1])

\* ----------------------------------------------------------------- C2
\* C2: two events with identical effective timestamps keep their input order
\* in the sequenced output.
C2_StableOnTies ==
  (Formatted /\ rev \in {"p002", "p000_1"}) =>
     \A i, j \in 1..Len(sortedEvents) :
        (/\ EffectiveTime(sortedEvents[i]) = EffectiveTime(sortedEvents[j])
         /\ sortedEvents[i].id < sortedEvents[j].id) => i < j

\* ----------------------------------------------------------------- C3
\* An empty batch: an empty list under events, or a payload without a list.
EmptyBatchDone ==
  Formatted /\ rev \in {"p002", "track_1"} /\ Len(InputBatch) = 0

\* C3: an empty batch yields origin "N/A", destination "N/A", status
\* "Status Unavailable", an empty containers list and an empty transportPlan
\* list, and no error response.
C3_EmptyBatchResult ==
  EmptyBatchDone =>
     /\ response.statusCode = 200 /\ response.error = <<>>
     /\ "summary.from" \in response.has /\ response.from = "N/A"
     /\ "summary.to" \in response.has /\ response.to = "N/A"
     /\ "status" \in response.has /\ response.status = "Status Unavailable"
     /\ "containers" \in response.has /\ response.containers = <<>>
     /\ "transportPlan" \in response.has /\ response.transportPlan = <<>>

\* ----------------------------------------------------------------- C4
\* The handler of a detailed revision returned a response with a body.
DetailedReturned == Formatted /\ rev \in DetailedRevs /\ response.statusCode = 200

\* Positions of the input events that carry an equipment reference.
Carrying == {i \in 1..Len(InputBatch) : Truthy(InputBatch[i].equipmentReference)}

\* C4: in every response the container ids are exactly the distinct equipment
\* references of the input events, each id once, and every event carrying a
\* reference belongs to exactly one container.
C4_ContainersPartition ==
  DetailedReturned =>
     LET cs == response.containers IN
       /\ {cs[i].id : i \in 1..Len(cs)} = {InputBatch[i].equipmentReference : i \in Carrying}
       /\ \A i, j \in 1..Len(cs) : cs[i].id = cs[j].id => i = j
       /\ \A k \in Carrying :
            Cardinality({i \in 1..Len(cs) : cs[i].id = InputBatch[k].equipmentReference}) = 1

\* Three events carry a reference, two of them the same one, and two
\* containers were returned.
C4_Witness ==
  /\ DetailedReturned
  /\ Cardinality(Carrying) = 3
  /\ Len(response.containers) = 2

\* ----------------------------------------------------------------- C5
\* Positions in sequence order of the events carrying reference id.
PositionsOf(id) == {j \in 1..Len(sortedEvents) : sortedEvents[j].equipmentReference = id}

\* Container c shows the status, size, location and time of event e.
TakenFrom(c, e) ==
  /\ c.finalStatus =
       Or(Lookup(eventDescriptions(rev), e.equipmentEventTypeCode), e.equipmentEventTypeCode)
  /\ c.size = Or(Lookup(isoCodeToSize(rev), e.ISOEquipmentCode), "Standard")
  /\ c.finalLocation = IF LocationObj(e).present /\ LocationObj(e).hasAddress
                       THEN <<CityOf(LocationObj(e)), CountryOf(LocationObj(e))>>
                       ELSE <<"N/A">>
  /\ c.finalDate = e.eventDateTime

\* C5: every container's final status, size, location and timestamp are those
\* of the event last in sequence order among the events carrying its reference.
C5_FinalStateFromLastEvent ==
  DetailedReturned =>
     \A i \in 1..Len(response.containers) :
        LET c == response.containers[i] IN
          /\ PositionsOf(c.id) # {}
          /\ TakenFrom(c, sortedEvents[FindLast(PositionsOf(c.id))])

\* A container has two events that differ in what they show, and the one
\* last in sequence order arrived first in the feed.
C5_Witness ==
  /\ DetailedReturned
  /\ \E i \in 1..Len(response.containers) :
       LET ps == PositionsOf(response.containers[i].id) IN
         \E a, b \in ps :
            /\ a < b /\ b = FindLast(ps)
            /\ sortedEvents[b].id < sortedEvents[a].id
            /\ sortedEvents[a].equipmentEventTypeCode # sortedEvents[b].equipmentEventTypeCode

\* ----------------------------------------------------------------- C6
\* Positions of the input events classified ACTUAL.
Actuals == {i \in 1..Len(InputBatch) : InputBatch[i].eventClassifierCode = "ACT"}

\* The most recent actual event: none has a later effective timestamp.
MostRecentActuals ==
  {i \in Actuals : \A j \in Actuals :
      EffectiveTime(InputBatch[j]) <= EffectiveTime(InputBatch[i])}

\* C6: the status is the translated description of the most recent ACTUAL
\* event, and exactly "Status Unavailable" when the batch has no ACTUAL event.
C6_StatusFromLatestActual ==
  (Formatted /\ rev \in {"track_2", "p003"} /\ response.statusCode = 200) =>
     IF Actuals = {} THEN response.status = "Status Unavailable"
     ELSE \E i \in MostRecentActuals : response.status = KindDescription(InputBatch[i])

\* ------------------------------------------------------------ C7 and C8
\* The resolved location of an event as the summary shows it: the city, else
\* the facility name, else the sentinel.
ResolvedLocation(e) ==
  LET l == Or(CityOf(LocationObj(e)), NameOf(LocationObj(e)))
  IN IF Truthy(l) THEN l ELSE "N/A"

\* Positions in sequence order of the events of the given subtypes.
WithCode(codes) == {i \in 1..Len(sortedEvents) : MoveCode(sortedEvents[i]) \in codes}

\* Positions in sequence order of the events with a known location.
Located == {i \in 1..Len(sortedEvents) : ResolvedLocation(sortedEvents[i]) # "N/A"}

\* C7: the origin is the location of the first load or departure event in
\* sequence order; without one, of the first event with a known location;
\* without one, the sentinel.
C7_Origin ==
  DetailedDone =>
     response.from =
       IF WithCode({"LOAD", "DEPA"}) # {}
       THEN ResolvedLocation(sortedEvents[FindFirst(WithCode({"LOAD", "DEPA"}))])
       ELSE IF Located # {} THEN ResolvedLocation(sortedEvents[FindFirst(Located)])
       ELSE "N/A"

\* C8: the destination is the location of the last discharge or arrival
\* event in sequence order; without one, of the last event with a known
\* location.
C8_Destination ==
  DetailedDone =>
     response.to =
       IF WithCode({"DISC", "ARRI"}) # {}
       THEN ResolvedLocation(sortedEvents[FindLast(WithCode({"DISC", "ARRI"}))])
       ELSE IF Located # {} THEN ResolvedLocation(sortedEvents[FindLast(Located)])
       ELSE "N/A"

\* ----------------------------------------------------------------- C9
\* The label the claim gives the whole-day difference n.
RecencyLabel(n) ==
  IF n <= 0 THEN [text |-> "Today", n |-> 0]
  ELSE IF n = 1 THEN [text |-> "day ago", n |-> 1]
  ELSE [text |-> "days ago", n |-> n]

\* C9: the recency label is "Today" for a whole-day difference N <= 0 between
\* the clock and the latest event, "1 day ago" for N = 1, "N days ago" for N >= 2.
C9_RecencyLabel ==
  DetailedDone =>
     response.lastUpdated =
       RecencyLabel(RoundDays(clock - EffectiveTime(sortedEvents[Len(sortedEvents)])))

\* ---------------------------------------------------------------- C10
\* C10: the returned transportPlan holds exactly one step per sequenced event
\* and the timestamps of consecutive steps never decrease.
C10_PlanAscending ==
  (DetailedDone /\ rev \in {"p002", "track_1"}) =>
     /\ Len(response.transportPlan) = Len(sortedEvents)
     /\ \A k \in 1..Len(sortedEvents) :
          Cardinality({i \in 1..Len(response.transportPlan) :
                         response.transportPlan[i].of = sortedEvents[k].id}) = 1
     /\ \A i \in 1..(Len(response.transportPlan) - 1) :
          LET a == response.transportPlan[i].date
              b == response.transportPlan[i + 1].date
          IN (a # NoTime /\ b # NoTime) => a <= b

\* ---------------------------------------------------------------- C11
\* The static code-to-city table of the specification, with the entry of its
\* example.
LocationCodeTable == ObjectLiteral(<< <<"SAJED", "Jeddah">> >>)

\* The location the stated priority resolves for event e.
PriorityLocation(e) ==
  LET loc == LocationObj(e) IN
  IF loc.present /\ loc.UNLocationCode \in DOMAIN LocationCodeTable
  THEN LocationCodeTable[loc.UNLocationCode]
  ELSE ResolvedLocation(e)

\* C11: the location resolved for an event is the table's name for its
\* location code when the table has the code, else its city, else its
\* facility name, else the sentinel.  Observed on the summary origin, which
\* is the resolved location of the event FromIndex selects.
C11_LocationPriority ==
  (DetailedDone /\ rev \in {"p002", "p000_1"} /\ FromIndex(rev, sortedEvents) # 0) =>
     response.from = PriorityLocation(sortedEvents[FromIndex(rev, sortedEvents)])

\* ---------------------------------------------------------------- C12
\* No part of the text is undefined.
Populated(text) == \A i \in 1..Len(text) : text[i] # Undefined

\* C12: building the transport steps and the container locations of a batch
\* never raises, and no location field of the result is left undefined.
C12_LocationTotal ==
  (Formatted /\ rev = "p002" /\ Len(InputBatch) > 0) =>
     /\ response.statusCode = 200
     /\ \A i \in 1..Len(response.transportPlan) :
          /\ response.transportPlan[i].locationName # Undefined
          /\ Populated(response.transportPlan[i].locationDetail)
     /\ \A i \in 1..Len(response.containers) :
          Populated(response.containers[i].finalLocation)

\* ---------------------------------------------------------------- C13
\* A record that cannot be classified: null, or an object with neither a
\* kind nor any kind-specific code.
Unclassifiable(e) ==
  \/ e.isNull
  \/ /\ e.eventType = Undefined
     /\ e.equipmentEventTypeCode = Undefined
     /\ e.transportEventTypeCode = Undefined
     /\ e.shipmentEventTypeCode = Undefined

\* Positions of the input records that can be classified.
Classified == {i \in 1..Len(InputBatch) : ~Unclassifiable(InputBatch[i])}

\* C13: when a batch holds records that cannot be classified beside records
\* that can, the result is a success, and the sequenced events, the transport
\* plan and the containers hold the classified records and no other.
C13_BadRecordDropped ==
  (Formatted /\ rev = "p002" /\ Classified # {}) =>
     /\ response.statusCode = 200
     /\ {sortedEvents[i].id : i \in 1..Len(sortedEvents)} = Classified
     /\ {response.transportPlan[i].of : i \in 1..Len(response.transportPlan)} = Classified
     /\ \A i \in 1..Len(response.containers) :
          \E k \in Classified : InputBatch[k].equipmentReference = response.containers[i].id

\* ---------------------------------------------------------------- C14
\* The handler read the tracking response and returned.
PayloadRead == pc = "done" /\ trackingData # NoPayload

\* C14: a payload that is neither a list of events nor an object holding
\* one is answered with an error, never with the result of an empty batch.
C14_InvalidPayloadRejected ==
  (PayloadRead /\ rev \in {"p002", "p000_2"} /\ upstream.shape \in {"object", "null"}) =>
     /\ response.statusCode # 200
     /\ "error" \in response.has

\* ---------------------------------------------------------------- C15
\* Every response the handler of revision r can return for payload td when
\* the clock shows now.
ResultsOf(r, td, now) ==
  IF PayloadThrows(r, td) \/ RecordThrows(Batch(r, td)) THEN {InternalError(r, "TypeError")}
  ELSE IF r \in DetailedRevs /\ Len(Batch(r, td)) = 0 THEN {EmptyResponse(r)}
  ELSE {IF r \in DetailedRevs THEN DetailedResponse(r, sorted, now)
                              ELSE StatusResponse(r, sorted) :
          sorted \in (IF r \in SortingRevs THEN ArraySort(r, Batch(r, td))
                      ELSE {Batch(r, td)})}

\* The payload holding the same list in the other of the two forms.
OtherForm(td) == Payload(IF td.shape = "list" THEN "events" ELSE "list", td.events)

\* C15: a non-empty list of events, given bare or under events, is accepted,
\* and the response is one the same list in the other form yields.
C15_BothFormsAgree ==
  (/\ PayloadRead /\ rev \in {"p002", "p000_2", "p001"}
   /\ upstream.shape \in {"list", "events"} /\ Len(upstream.events) > 0) =>
     /\ response.statusCode = 200
     /\ response \in ResultsOf(rev, OtherForm(upstream), clock)

\* ---------------------------------------------------------------- C16
\* The tracking response was never read and no event was formatted.
CoreNotRun == trackingData = NoPayload /\ sortedEvents = <<>>

\* The handler returned an error response whose message is headed by text.
ReturnedError(text) ==
  /\ pc = "done"
  /\ "error" \in response.has
  /\ response.error[1] = text

\* The handler returned an error response that is not the one of the catch
\* block around the formatting code.
ReturnedUpstreamError ==
  /\ pc = "done"
  /\ "error" \in response.has
  /\ response.error[1] # "An internal error occurred"

\* C16: a step in which the token request fails ends the run with an
\* authentication error and without a tracking request; a step in which the
\* tracking request is answered with a non-OK status ends the run without the
\* formatting code having run and with a response that reports the upstream
\* failure, not an internal error.
C16_UpstreamSurfaced ==
  [][(rev \in {"p002", "p003"}) =>
       ((AuthFail => (CoreNotRun' /\ (ReturnedError("Authentication failed")
                                      \/ ReturnedError("Authentication failed. Details"))'))
        /\ (FetchNotOk => (CoreNotRun' /\ ReturnedUpstreamError')))]_vars

\* ---------------------------------------------------------------- C17
\* The icon the stated priority gives event e; the designated ground-move
\* codes are those the revision lists.
PriorityIcon(e) ==
  IF e.eventType = "TRANSPORT" \/ ModeOf(e) = "VESSEL" THEN "vessel"
  ELSE IF ModeOf(e) = "TRUCK" \/ e.equipmentEventTypeCode \in GroundMoveCodes(rev)
  THEN "truck"
  ELSE "container"

\* C17: the icon of every step is vessel for a TRANSPORT event or one carried
\* by a vessel, else truck for one carried by a truck or with a ground-move
\* code, else container.
C17_IconPriority ==
  DetailedDone =>
     \A i \in 1..Len(response.transportPlan) :
        \A k \in 1..Len(InputBatch) :
           response.transportPlan[i].of = InputBatch[k].id =>
              response.transportPlan[i].icon = PriorityIcon(InputBatch[k])

\* ---------------------------------------------------------------- C18
\* The entry of table tbl for key k, or the default when tbl has no such key.
WithDefault(tbl, k, default) == IF k \in DOMAIN tbl THEN tbl[k] ELSE default

\* C18: the description of every step is the table's phrase for the event's
\* code, or the code itself when the table lacks it; the size of every
\* container is the table's label for the ISO code of its last event, or
\* "Standard" when the table lacks it or the event has none.
C18_LookupDefaults ==
  (DetailedDone /\ rev \in {"track_1", "p002"}) =>
     /\ \A i \in 1..Len(response.transportPlan) :
          \A k \in 1..Len(InputBatch) :
             response.transportPlan[i].of = InputBatch[k].id =>
                response.transportPlan[i].description =
                  WithDefault(eventDescriptions(rev), InputBatch[k].equipmentEventTypeCode,
                              InputBatch[k].equipmentEventTypeCode)
     /\ \A i \in 1..Len(response.containers) :
          response.containers[i].size =
            WithDefault(isoCodeToSize(rev),
                        lastEventForContainer(sortedEvents, response.containers[i].id).ISOEquipmentCode,
                        "Standard")

\* ---------------------------------------------------------------- C19
\* Event a comes before event b in the total order on effective timestamps:
\* by timestamp, and by arrival among equal timestamps.
Before(a, b) ==
  \/ EffectiveTime(a) < EffectiveTime(b)
  \/ EffectiveTime(a) = EffectiveTime(b) /\ a.id < b.id

\* C19: the sequencer orders every batch by effective timestamp (creation
\* time, else event time, else zero), events without a creation time
\* included: of any two sequenced events the earlier one in that total order
\* comes first.
C19_EffectiveOrderTotal ==
  (Formatted /\ rev = "p002" /\ Len(InputBatch) > 0) =>
     \A i, j \in 1..Len(sortedEvents) :
        i < j => Before(sortedEvents[i], sortedEvents[j])

\* ---------------------------------------------------------------- C20
\* C20: after the run the payload the handler received holds the records it
\* held when it was received, in the same order and with the same fields.
C20_PayloadUnchanged ==
  (PayloadRead /\ rev \in {"track_1", "p002"}) => trackingData = upstream

\* ---------------------------------------------------------------- C21
\* Positions of the steps of the returned plan with a vessel descriptor.
VesselSteps ==
  {i \in 1..Len(response.transportPlan) : response.transportPlan[i].vesselInfo # <<>>}

\* Positions of the input events that carry a vessel name.
Named == {k \in 1..Len(InputBatch) : Truthy(VesselNameOf(InputBatch[k]))}

\* The batch of the example: an equipment event for MSKU1000, one for
\* MSKU2000, and a transport event with a vessel name, in any order.
ExampleBatch ==
  /\ Len(InputBatch) = 3
  /\ \E a, b, c \in 1..3 :
       /\ InputBatch[a] = [VesselEvent("EQUIPMENT", "MSKU1000", Undefined) EXCEPT !.id = a]
       /\ InputBatch[b] = [VesselEvent("EQUIPMENT", "MSKU2000", Undefined) EXCEPT !.id = b]
       /\ InputBatch[c] = [VesselEvent("TRANSPORT", Undefined, "MAERSK ESSEX") EXCEPT !.id = c]

\* C21: a step has a vessel descriptor exactly when the event it was built
\* from carries a vessel name, so there are as many such steps as such
\* events; and the batch of the example yields two containers, three steps
\* and one step with a vessel descriptor.
C21_VesselDescriptor ==
  (DetailedDone /\ rev \in {"p002", "track_1"}) =>
     /\ \A i \in 1..Len(response.transportPlan) :
          \A k \in 1..Len(InputBatch) :
             response.transportPlan[i].of = InputBatch[k].id =>
                (i \in VesselSteps <=> k \in Named)
     /\ Cardinality(VesselSteps) = Cardinality(Named)
     /\ ExampleBatch =>
          /\ Len(response.containers) = 2
          /\ Len(response.transportPlan) = 3
          /\ Cardinality(VesselSteps) = 1

====
